---- MODULE Spec2Model ----
(***************************************************************************)
(* The RUM tool handlers of src/tools/rum/tool.ts as a state machine:      *)
(* five request handlers around one awaited call of the Datadog RUM API,   *)
(* the nested-attribute path resolver getValueByPath, the distinct-session *)
(* counter of get_rum_grouped_event_count and the metric summariser of     *)
(* get_rum_page_performance.                                               *)
(***************************************************************************)
EXTENDS Integers, Sequences, FiniteSets, TLC

(***************************************************************************)
(* JavaScript numbers.  A non-negative finite IEEE-754 binary64 value is   *)
(* [m, e] with value m * 2^e, where m is a natural number held as a        *)
(* sequence of limbs of LimbBits bits, least significant limb first, or    *)
(* the empty sequence for zero.  Sums and quotients are formed exactly and *)
(* then rounded to nearest, ties to even, as the hardware does.  Negative  *)
(* numbers, subnormals, infinities and NaN are outside the inputs drawn.   *)
(***************************************************************************)
Precision == 53

\* A natural number of any size is a sequence of limbs in base 2^LimbBits,
\* least significant first, with no leading zero limb; <<>> is zero.
LimbBits == 15
Base == 2 ^ LimbBits

Zeros(k) == [i \in 1..k |-> 0]

RECURSIVE Trim(_)
Trim(a) == IF a = <<>> \/ a[Len(a)] # 0 THEN a ELSE Trim(SubSeq(a, 1, Len(a) - 1))

RECURSIVE AddC(_, _, _)
AddC(a, b, c) ==
    IF a = <<>> /\ b = <<>> THEN (IF c = 0 THEN <<>> ELSE <<c>>)
    ELSE LET s == (IF a = <<>> THEN 0 ELSE Head(a)) + (IF b = <<>> THEN 0 ELSE Head(b)) + c
         IN  <<s % Base>> \o AddC(IF a = <<>> THEN a ELSE Tail(a),
                                  IF b = <<>> THEN b ELSE Tail(b), s \div Base)

BigAdd(a, b) == AddC(a, b, 0)

RECURSIVE MulC(_, _, _)
\* a * c + carry for a small factor c
MulC(a, c, carry) ==
    IF a = <<>> THEN (IF carry = 0 THEN <<>> ELSE <<carry>>)
    ELSE LET s == Head(a) * c + carry
         IN  <<s % Base>> \o MulC(Tail(a), c, s \div Base)

RECURSIVE DivSmall(_, _)
\* quotient (untrimmed) and remainder of a by the small divisor n
DivSmall(a, n) ==
    IF a = <<>> THEN [q |-> <<>>, r |-> 0]
    ELSE LET hi  == DivSmall(Tail(a), n)
             cur == hi.r * Base + Head(a)
         IN  [q |-> <<cur \div n>> \o hi.q, r |-> cur % n]

BitLenSmall(v) == IF v = 0 THEN 0 ELSE CHOOSE k \in 1..LimbBits : 2 ^ (k - 1) <= v /\ v < 2 ^ k
BitLen(a) == IF a = <<>> THEN 0 ELSE LimbBits * (Len(a) - 1) + BitLenSmall(a[Len(a)])
Bit(a, i) == IF i \div LimbBits + 1 > Len(a) THEN 0
             ELSE (a[i \div LimbBits + 1] \div (2 ^ (i % LimbBits))) % 2
\* a * 2^s and floor(a / 2^s)
ShiftLeft(a, s) == IF a = <<>> THEN a ELSE Zeros(s \div LimbBits) \o MulC(a, 2 ^ (s % LimbBits), 0)
ShiftRight(a, s) ==
    IF s \div LimbBits >= Len(a) THEN <<>>
    ELSE Trim(DivSmall(SubSeq(a, s \div LimbBits + 1, Len(a)), 2 ^ (s % LimbBits)).q)
\* whether a is a multiple of 2^j
LowBitsZero(a, j) ==
    /\ \A i \in 1..(j \div LimbBits) : i <= Len(a) => a[i] = 0
    /\ j \div LimbBits + 1 <= Len(a) => a[j \div LimbBits + 1] % (2 ^ (j % LimbBits)) = 0

RECURSIVE BigLess(_, _)
BigLess(a, b) ==
    IF Len(a) # Len(b) THEN Len(a) < Len(b)
    ELSE IF a = <<>> THEN FALSE
    ELSE LET n == Len(a)
         IN  IF a[n] # b[n] THEN a[n] < b[n]
             ELSE BigLess(Trim(SubSeq(a, 1, n - 1)), Trim(SubSeq(b, 1, n - 1)))

RECURSIVE BigOfHex(_)
\* the number written with the hex digits h, most significant first
BigOfHex(h) ==
    IF h = <<>> THEN <<>>
    ELSE MulC(BigOfHex(SubSeq(h, 1, Len(h) - 1)), 16, h[Len(h)])

DZero == [m |-> <<>>, e |-> 0]

\* the exact value N * 2^e rounded to a double: to nearest, ties to even
RoundToDouble(N, e) ==
    IF N = <<>> THEN DZero
    ELSE IF BitLen(N) <= Precision
         THEN [m |-> ShiftLeft(N, Precision - BitLen(N)), e |-> e - (Precision - BitLen(N))]
    ELSE LET k      == BitLen(N) - Precision
             kept   == ShiftRight(N, k)
             up     == Bit(N, k - 1) = 1 /\ (~LowBitsZero(N, k - 1) \/ Bit(N, k) = 1)
             r      == IF up THEN BigAdd(kept, <<1>>) ELSE kept
         IN  IF BitLen(r) > Precision
             THEN [m |-> ShiftRight(r, 1), e |-> e + k + 1]
             ELSE [m |-> r, e |-> e + k]

DoubleOfNat(n) == RoundToDouble(IF n = 0 THEN <<>> ELSE <<n>>, 0)
DoubleOfHex(h, e) == RoundToDouble(BigOfHex(h), e)

\* a + b of two numbers
DoubleAdd(x, y) ==
    IF x.m = <<>> THEN y
    ELSE IF y.m = <<>> THEN x
    ELSE LET e == IF x.e < y.e THEN x.e ELSE y.e
         IN  RoundToDouble(BigAdd(ShiftLeft(x.m, x.e - e), ShiftLeft(y.m, y.e - e)), e)

\* a / n of a number by a positive array length
DoubleDiv(x, n) ==
    IF x.m = <<>> THEN DZero
    ELSE LET s == BitLenSmall(n) + 2
             d == DivSmall(ShiftLeft(x.m, s), n)
         IN  RoundToDouble(Trim(MulC(d.q, 2, IF d.r = 0 THEN 0 ELSE 1)), x.e - s - 1)

DoubleLess(x, y) ==
    IF y.m = <<>> THEN FALSE
    ELSE IF x.m = <<>> THEN TRUE
    ELSE IF x.e # y.e THEN x.e < y.e
    ELSE BigLess(x.m, y.m)

DoubleLeq(x, y) == x = y \/ DoubleLess(x, y)

(***************************************************************************)
(* JavaScript values.  A string that the code splits, stringifies or uses  *)
(* as a property key is a sequence of one-character strings, so that       *)
(* split('.') and String(v) are computed and not assumed; an object is a   *)
(* function from its own keys to values, an array the sequence of its      *)
(* elements.  Each kind of value keeps its content in a field of its own.  *)
(* Properties inherited from the built-in prototypes are not modelled,     *)
(* except a string's length.                                               *)
(***************************************************************************)
Undefined == [t |-> "undefined"]
Null      == [t |-> "null"]
Bool(b)   == [t |-> "boolean", b |-> b]
Str(s)    == [t |-> "string", s |-> s]
Num(d)    == [t |-> "number", n |-> d]
Obj(f)    == [t |-> "object", o |-> f]
Arr(a)    == [t |-> "array", a |-> a]

sLength    == <<"l", "e", "n", "g", "t", "h">>
sUnknown   == <<"u", "n", "k", "n", "o", "w", "n">>
sSession   == <<"s", "e", "s", "s", "i", "o", "n">>
sId        == <<"i", "d">>
sAttributes == <<"a", "t", "t", "r", "i", "b", "u", "t", "e", "s">>
sNull      == <<"n", "u", "l", "l">>
sUndefined == <<"u", "n", "d", "e", "f", "i", "n", "e", "d">>
sTrue      == <<"t", "r", "u", "e">>
sFalse     == <<"f", "a", "l", "s", "e">>
sObject    == <<"[", "o", "b", "j", "e", "c", "t", " ", "O", "b", "j", "e", "c", "t", "]">>

\* v is falsy: undefined, null, false, "" and 0
Truthy(v) ==
    CASE v.t = "undefined" -> FALSE
      [] v.t = "null"      -> FALSE
      [] v.t = "boolean"   -> v.b
      [] v.t = "string"    -> v.s # <<>>
      [] v.t = "number"    -> v.n # DZero
      [] OTHER             -> TRUE

\* v[key] of a value that is neither null nor undefined
Lookup(v, key) ==
    CASE v.t = "object" -> IF key \in DOMAIN v.o THEN v.o[key] ELSE Undefined
      [] v.t = "string" -> IF key = sLength THEN Num(DoubleOfNat(Len(v.s))) ELSE Undefined
      [] OTHER          -> Undefined

RECURSIVE split(_)
\* s.split('.')
split(s) ==
    IF \A i \in 1..Len(s) : s[i] # "."
    THEN <<s>>
    ELSE LET i == CHOOSE j \in 1..Len(s) : s[j] = "." /\ \A h \in 1..(j - 1) : s[h] # "."
         IN  <<SubSeq(s, 1, i - 1)>> \o split(SubSeq(s, i + 1, Len(s)))

Digit(d) == <<"0", "1", "2", "3", "4", "5", "6", "7", "8", "9">>[d + 1]

RECURSIVE DecimalOfNat(_)
DecimalOfNat(n) == IF n < 10 THEN <<Digit(n)>> ELSE DecimalOfNat(n \div 10) \o <<Digit(n % 10)>>

\* String(d) of a number; the numbers stringified are whole and below Base
NumberToString(d) ==
    IF d = DZero THEN <<"0">> ELSE DecimalOfNat(ShiftRight(d.m, 0 - d.e)[1])

\* String(v)
String(v) ==
    CASE v.t = "undefined" -> sUndefined
      [] v.t = "null"      -> sNull
      [] v.t = "boolean"   -> IF v.b THEN sTrue ELSE sFalse
      [] v.t = "string"    -> v.s
      [] v.t = "number"    -> NumberToString(v.n)
      [] OTHER             -> sObject

\* what a call does: it returns a value or it throws
Return(v) == [kind |-> "return", value |-> v]
Throw(e)  == [kind |-> "throw", error |-> e]

RECURSIVE getValueByPath(_, _, _)
getValueByPath(obj, path, index) ==
    IF index >= Len(path)
    THEN Return([value |-> obj, found |-> TRUE])
    ELSE LET key == path[index + 1]
         IN  IF obj.t \in {"null", "undefined"}
             THEN Throw("TypeError")
             ELSE IF Lookup(obj, key) = Undefined
                  THEN Return([value |-> Null, found |-> FALSE])
                  ELSE getValueByPath(Lookup(obj, key), path, index + 1)

RECURSIVE reduce(_, _)
\* metricNameParts.reduce((acc, part) => (acc ? acc[part] : undefined), acc)
reduce(parts, acc) ==
    IF parts = <<>> THEN acc
    ELSE reduce(Tail(parts), IF Truthy(acc) THEN Lookup(acc, Head(parts)) ELSE Undefined)

(***************************************************************************)
(* The handlers.  Each invocation runs its handler up to the awaited API   *)
(* call, is resumed with the response, and for the two aggregating         *)
(* handlers walks the returned events one at a time.  JavaScript runs one  *)
(* continuation at a time to completion: `running` is the invocation that  *)
(* holds the thread, 0 when the event loop is free.                        *)
(***************************************************************************)
VARIABLES
    pc,        \* invocation -> "idle", "awaiting", "loop", "done" or "error"
    tool,      \* invocation -> the handler's name
    args,      \* invocation -> the parsed request.params.arguments
    request,   \* invocation -> the parameters handed to the RUM API
    response,  \* invocation -> response.data
    idx,       \* invocation -> position of the for-of loop in response.data
    sessions,  \* invocation -> the Map from group value to its Set of session ids
    metrics,   \* invocation -> the Record from metric name to its number[]
    content,   \* invocation -> the content blocks returned
    error,     \* invocation -> the message of the error thrown
    running,   \* the invocation whose continuation is executing, or 0
    resolved   \* the last path resolution tried by ResolvePath

vars == <<pc, tool, args, request, response, idx, sessions, metrics, content, error,
          running, resolved>>

NumInvocations == 2
Invocations == 1..NumInvocations

PageLimit == 2000

NoApplicationsData == "No RUM applications data returned"
NoEventsData == "No RUM events data returned"

\* a strict test, `x === null`, which lets undefined through
IsNull(x) == x = Null

\* `x == null`
IsNullish(x) == x \in {Null, Undefined}

\* one text content block; the text is the parts of its label and the value
\* that JSON.stringify writes
TextContent(label, value) == <<[type |-> "text", text |-> [label |-> label, json |-> value]]>>

\* event.attributes?.attributes
EventAttributes(event) ==
    IF IsNullish(Lookup(event, sAttributes)) THEN Undefined
    ELSE Lookup(Lookup(event, sAttributes), sAttributes)

\* `!event.attributes?.attributes` is false
Usable(event) == Truthy(EventAttributes(event))

\* a binding declared once for the module, which every invocation shares
Shared(store, i) == store[1]

\* a `const` declared in the body of a handler: each invocation has its own
Local(store, i) == store[i]

\* response.data before the awaited call has settled
NoResponse == [t |-> "pending"]

\* apiInstance.listRUMEvents({filterQuery, filterFrom, filterTo, sort, pageLimit})
listRUMEvents(filterQuery, filterFrom, filterTo, pageLimit) ==
    [api |-> "listRUMEvents", filterQuery |-> filterQuery, filterFrom |-> filterFrom,
     filterTo |-> filterTo, sort |-> "timestamp", pageLimit |-> pageLimit]

\* new Date(seconds * 1000), as milliseconds since the epoch
Date(seconds) == seconds * 1000

Call(i, name, a, req) ==
    /\ running = 0
    /\ pc[i] = "idle"
    /\ tool' = [tool EXCEPT ![i] = name]
    /\ args' = [args EXCEPT ![i] = a]
    /\ request' = [request EXCEPT ![i] = req]
    /\ pc' = [pc EXCEPT ![i] = "awaiting"]
    /\ UNCHANGED <<response, idx, sessions, metrics, content, error, running, resolved>>

Resuming(i, name) ==
    /\ running = 0
    /\ pc[i] = "awaiting"
    /\ tool[i] = name

ThrowError(i, message) ==
    /\ pc' = [pc EXCEPT ![i] = "error"]
    /\ error' = [error EXCEPT ![i] = message]

ReturnContent(i, blocks) ==
    /\ pc' = [pc EXCEPT ![i] = "done"]
    /\ content' = [content EXCEPT ![i] = blocks]

\* the awaited call rejects (transport, authentication): the error propagates
ApiRejects(i) ==
    /\ running = 0
    /\ pc[i] = "awaiting"
    /\ ThrowError(i, "ApiError")
    /\ UNCHANGED <<tool, args, request, response, idx, sessions, metrics, content,
                   running, resolved>>

(* get_rum_applications *)
CallApplications(i) ==
    Call(i, "get_rum_applications", <<>>, [api |-> "getRUMApplications"])

ResumeApplications(i, data) ==
    /\ Resuming(i, "get_rum_applications")
    /\ response' = [response EXCEPT ![i] = data]
    /\ IF IsNullish(data)
       THEN ThrowError(i, NoApplicationsData) /\ UNCHANGED content
       ELSE ReturnContent(i, TextContent(<<"RUM applications: ">>, data)) /\ UNCHANGED error
    /\ UNCHANGED <<tool, args, request, idx, sessions, metrics, running, resolved>>

(* get_rum_events *)
CallEvents(i, a) ==
    Call(i, "get_rum_events", a,
         listRUMEvents(Str(a.query), Date(a.from), Date(a.to), a.limit))

ResumeEvents(i, data) ==
    /\ Resuming(i, "get_rum_events")
    /\ response' = [response EXCEPT ![i] = data]
    /\ IF IsNullish(data)
       THEN ThrowError(i, NoEventsData) /\ UNCHANGED content
       ELSE ReturnContent(i, TextContent(<<"RUM events data: ">>, data)) /\ UNCHANGED error
    /\ UNCHANGED <<tool, args, request, idx, sessions, metrics, running, resolved>>

(* get_rum_page_waterfall *)
CallWaterfall(i, a) ==
    Call(i, "get_rum_page_waterfall", a,
         listRUMEvents(Str("@application.name:" \o a.applicationName
                               \o " @session.id:" \o a.sessionId),
                       Undefined, Undefined, PageLimit))

ResumeWaterfall(i, data) ==
    /\ Resuming(i, "get_rum_page_waterfall")
    /\ response' = [response EXCEPT ![i] = data]
    /\ IF IsNullish(data)
       THEN ThrowError(i, NoEventsData) /\ UNCHANGED content
       ELSE ReturnContent(i, TextContent(<<"Waterfall data: ">>, data)) /\ UNCHANGED error
    /\ UNCHANGED <<tool, args, request, idx, sessions, metrics, running, resolved>>

(* get_rum_grouped_event_count *)

\* the query passed on as it is, the wildcard included
QueryAsIs(query) == Str(query)

\* filterQuery: query !== '*' ? query : undefined
GroupedFilterQuery(query) == IF query # "*" THEN Str(query) ELSE Undefined

CallGrouped(i, a) ==
    Call(i, "get_rum_grouped_event_count", a,
         listRUMEvents(GroupedFilterQuery(a.query), Date(a.from), Date(a.to), PageLimit))

\* a Map as the function from its keys; a Set as the sequence of its members
\* in insertion order
EmptyMap == [k \in {} |-> <<>>]
MapSet(m, key, v) == [k \in DOMAIN m \cup {key} |-> IF k = key THEN v ELSE m[k]]
\* an array in place of the Set: push keeps duplicates
ArrayPush(set, v) == Append(set, v)
SetAdd(set, v) == IF \E k \in 1..Len(set) : set[k] = v THEN set ELSE Append(set, v)
SetSize(set) == Len(set)

\* event.attributes.attributes.session?.id
SessionId(attrs) ==
    LET session == Lookup(attrs, sSession)
    IN  IF IsNullish(session) THEN Undefined ELSE Lookup(session, sId)

\* the body of the for-of loop over response.data, for a usable event
GroupEvent(m, attrs, groupBy) ==
    LET groupPath == split(groupBy)
        result    == getValueByPath(attrs,
                         [k \in 1..Len(groupPath) |-> String(Str(groupPath[k]))], 0)
    IN  IF result.kind = "throw" THEN result
        ELSE LET groupValue == IF result.value.found THEN String(result.value.value)
                               ELSE sUnknown
                 created    == IF groupValue \in DOMAIN m THEN m
                               ELSE MapSet(m, groupValue, <<>>)
                 id         == SessionId(attrs)
             IN  Return(IF Truthy(id)
                        THEN MapSet(created, groupValue, SetAdd(created[groupValue], id))
                        ELSE created)

\* Object.fromEntries(entries.map(([key, set]) => [key, set.size]))
SessionCounts(m) == [k \in DOMAIN m |-> SetSize(m[k])]

ResumeGrouped(i, data) ==
    /\ Resuming(i, "get_rum_grouped_event_count")
    /\ response' = [response EXCEPT ![i] = data]
    /\ IF IsNullish(data)
       THEN /\ ThrowError(i, NoEventsData)
            /\ UNCHANGED <<sessions, idx, running>>
       ELSE /\ sessions' = [sessions EXCEPT ![i] = EmptyMap]
            /\ idx' = [idx EXCEPT ![i] = 1]
            /\ pc' = [pc EXCEPT ![i] = "loop"]
            /\ running' = i
            /\ UNCHANGED error
    /\ UNCHANGED <<tool, args, request, metrics, content, resolved>>

GroupedStep(i) ==
    /\ running = i
    /\ pc[i] = "loop"
    /\ tool[i] = "get_rum_grouped_event_count"
    /\ idx[i] <= Len(response[i].a)
    /\ LET event == response[i].a[idx[i]]
           step  == IF Usable(event)
                    THEN GroupEvent(Local(sessions, i), EventAttributes(event), args[i].groupBy)
                    ELSE Return(Local(sessions, i))
       IN  IF step.kind = "throw"
           THEN /\ ThrowError(i, step.error)
                /\ running' = 0
                /\ UNCHANGED <<sessions, idx>>
           ELSE /\ sessions' = [sessions EXCEPT ![i] = step.value]
                /\ idx' = [idx EXCEPT ![i] = @ + 1]
                /\ UNCHANGED <<pc, error, running>>
    /\ UNCHANGED <<tool, args, request, response, metrics, content, resolved>>

GroupedFinish(i) ==
    /\ running = i
    /\ pc[i] = "loop"
    /\ tool[i] = "get_rum_grouped_event_count"
    /\ idx[i] > Len(response[i].a)
    /\ ReturnContent(i, TextContent(<<"Session counts (grouped by ", args[i].groupBy, "): ">>,
                                    SessionCounts(Local(sessions, i))))
    /\ running' = 0
    /\ UNCHANGED <<tool, args, request, response, idx, sessions, metrics, error, resolved>>

(* get_rum_page_performance *)

\* const viewQuery = query !== '*' ? `@type:view ${query}` : '@type:view'
viewQuery(query) == IF query # "*" THEN "@type:view " \o query ELSE "@type:view"

CallPerformance(i, a) ==
    Call(i, "get_rum_page_performance", a,
         listRUMEvents(Str(viewQuery(a.query)), Date(a.from), Date(a.to), PageLimit))

\* metricNames.reduce((acc, name) => { acc[name] = []; return acc }, {})
InitialMetrics(metricNames) ==
    [name \in {metricNames[k] : k \in 1..Len(metricNames)} |-> <<>>]

\* a looser test, `value != null`, which lets every defined value through
IsDefined(value) == ~IsNullish(value)

\* typeof value === 'number'
IsNumber(value) == value.t = "number"

RECURSIVE CollectMetrics(_, _, _)
\* the inner for-of loop over metricNames, for a usable event
CollectMetrics(metricNames, attrs, m) ==
    IF metricNames = <<>> THEN m
    ELSE LET metricName == Head(metricNames)
             value      == reduce(split(metricName), attrs)
         IN  CollectMetrics(Tail(metricNames), attrs,
                 IF ~IsNullish(attrs) /\ IsNumber(value)
                 THEN [m EXCEPT ![metricName] = Append(@, value)]
                 ELSE m)

RECURSIVE SumFrom(_, _)
\* values.reduce((a, b) => a + b, acc)
SumFrom(values, acc) ==
    IF values = <<>> THEN acc ELSE SumFrom(Tail(values), DoubleAdd(acc, Head(values).n))

\* the first value in place of the smallest
FirstValue(values) == values[1].n

RECURSIVE MathMin(_)
\* Math.min(...values)
MathMin(values) ==
    IF Len(values) = 1 THEN values[1].n
    ELSE LET rest == MathMin(Tail(values))
         IN  IF DoubleLess(rest, Head(values).n) THEN rest ELSE Head(values).n

RECURSIVE MathMax(_)
\* Math.max(...values)
MathMax(values) ==
    IF Len(values) = 1 THEN values[1].n
    ELSE LET rest == MathMax(Tail(values))
         IN  IF DoubleLess(Head(values).n, rest) THEN rest ELSE Head(values).n

\* sum / values.length
Average(values) == DoubleDiv(SumFrom(values, DZero), Len(values))

\* the summary of one metric's values
Statistics(values) ==
    IF Len(values) > 0
    THEN [avg |-> Average(values), min |-> MathMin(values), max |-> MathMax(values),
          count |-> Len(values)]
    ELSE [avg |-> DZero, min |-> DZero, max |-> DZero, count |-> 0]

\* Object.entries(metrics).reduce(...)
Results(m) == [name \in DOMAIN m |-> Statistics(m[name])]

ResumePerformance(i, data) ==
    /\ Resuming(i, "get_rum_page_performance")
    /\ response' = [response EXCEPT ![i] = data]
    /\ IF IsNullish(data)
       THEN /\ ThrowError(i, NoEventsData)
            /\ UNCHANGED <<metrics, idx, running>>
       ELSE /\ metrics' = [metrics EXCEPT ![i] = InitialMetrics(args[i].metricNames)]
            /\ idx' = [idx EXCEPT ![i] = 1]
            /\ pc' = [pc EXCEPT ![i] = "loop"]
            /\ running' = i
            /\ UNCHANGED error
    /\ UNCHANGED <<tool, args, request, sessions, content, resolved>>

PerformanceStep(i) ==
    /\ running = i
    /\ pc[i] = "loop"
    /\ tool[i] = "get_rum_page_performance"
    /\ idx[i] <= Len(response[i].a)
    /\ LET event == response[i].a[idx[i]]
       IN  metrics' = [metrics EXCEPT ![i] =
                           IF Usable(event)
                           THEN CollectMetrics(args[i].metricNames,
                                               EventAttributes(event), Local(metrics, i))
                           ELSE Local(metrics, i)]
    /\ idx' = [idx EXCEPT ![i] = @ + 1]
    /\ UNCHANGED <<pc, tool, args, request, response, sessions, content, error, running,
                   resolved>>

PerformanceFinish(i) ==
    /\ running = i
    /\ pc[i] = "loop"
    /\ tool[i] = "get_rum_page_performance"
    /\ idx[i] > Len(response[i].a)
    /\ ReturnContent(i, TextContent(<<"Page performance metrics: ">>, Results(Local(metrics, i))))
    /\ running' = 0
    /\ UNCHANGED <<tool, args, request, response, idx, sessions, metrics, error, resolved>>

\* getValueByPath and the reducer, each applied to one structure and one path
ResolvePath(obj, path) ==
    /\ resolved = NoResponse
    /\ resolved' = [obj |-> obj, path |-> path,
                    byPath   |-> getValueByPath(obj, path, 0),
                    byReduce |-> reduce(path, obj)]
    /\ UNCHANGED <<pc, tool, args, request, response, idx, sessions, metrics, content,
                   error, running>>

(***************************************************************************)
(* Inputs.  Arguments are the ones the schemas accept; responses and       *)
(* attribute structures are drawn from the sets below.                     *)
(***************************************************************************)
MaxGroupEvents == 2
MaxPerfEvents == 3
MaxDepth == 2
MaxPathLen == 3

sA == <<"a">>
sB == <<"b">>
sAB == <<"a", ".", "b">>
sALength == <<"a", ".", "l", "e", "n", "g", "t", "h">>
sSessionId == <<"s", "e", "s", "s", "i", "o", "n", ".", "i", "d">>
sUS == <<"U", "S">>
sFR == <<"F", "R">>
s42 == <<"4", "2">>
s1 == <<"s", "1">>
s2 == <<"s", "2">>

D42   == DoubleOfNat(42)
D100  == DoubleOfNat(100)
D200  == DoubleOfNat(200)
D300  == DoubleOfNat(300)
\* 0.1, which is 0x1.999999999999ap-4
DTenth == DoubleOfHex(<<1, 9, 9, 9, 9, 9, 9, 9, 9, 9, 9, 9, 9, 10>>, -56)

\* the object with the given own properties
One(k, v) == Obj([j \in {k} |-> v])
Two(k1, v1, k2, v2) == Obj([j \in {k1, k2} |-> IF j = k1 THEN v1 ELSE v2])
EmptyObj == Obj(EmptyMap)

\* a returned event with the given event.attributes.attributes
Event(attrs) == One(sAttributes, One(sAttributes, attrs))
UnusableEvents == {EmptyObj, One(sAttributes, EmptyObj), Event(Null)}

SeqsUpTo(S, n) == UNION {[1..k -> S] : k \in 0..n}

\* the arrays of at most n elements of S
ArraysUpTo(S, n) == {Arr(a) : a \in SeqsUpTo(S, n)}

TimeRange == [from |-> 0, to |-> 60]

\* events of get_rum_grouped_event_count: a dimension `a` and a session
GroupDimensions ==
    {Null, Str(sUS), Str(sFR), Str(sUnknown), Str(s42), Num(D42), One(sB, Str(sUS)),
     One(sB, Null)}
GroupSessions == {One(sId, Str(s1)), One(sId, Str(s2)), One(sId, Str(<<>>)), EmptyObj, Null}
GroupEvents ==
    UnusableEvents
      \cup {Event(EmptyObj), Event(One(sSession, One(sId, Str(s1))))}
      \cup {Event(One(sA, a)) : a \in GroupDimensions}
      \cup {Event(Two(sA, a, sSession, One(sId, Str(s1)))) : a \in GroupDimensions}
      \cup {Event(Two(sA, Str(sUS), sSession, z)) : z \in GroupSessions}
      \cup {Event(Two(sA, Str(sFR), sSession, One(sId, Str(s2))))}
GroupBys == {sA, sAB, sALength, sSessionId}
GroupArgs(queries, groupBys) ==
    {[query |-> q, from |-> TimeRange.from, to |-> TimeRange.to, groupBy |-> g] :
        q \in queries, g \in groupBys}

\* events of get_rum_page_performance: a metric `a`
PerfMetrics ==
    {Num(DTenth), Num(D100), Num(D200), Num(D300), Str(s42), Bool(TRUE), Null,
     One(sB, Num(D100))}
PerfEvents == {One(sAttributes, EmptyObj), Event(EmptyObj)} \cup {Event(One(sA, a)) : a \in PerfMetrics}
MetricNameLists == {<<>>, <<sA>>, <<sAB>>, <<sA, sAB>>, <<sA, sA>>}
PerfArgs(queries, lists) ==
    {[query |-> q, from |-> TimeRange.from, to |-> TimeRange.to, metricNames |-> l] :
        q \in queries, l \in lists}

\* the inputs of concurrent invocations
Queries == {"*", "", "@session.type:user"}
EventsArgs == {[query |-> q, from |-> TimeRange.from, to |-> TimeRange.to, limit |-> 10] :
                  q \in Queries}
WaterfallArgs == {[applicationName |-> "shop", sessionId |-> "s1"]}
Event1 == Event(Two(sA, Num(D100), sSession, One(sId, Str(s1))))
Event2 == Event(Two(sA, Str(sUS), sSession, One(sId, Str(s2))))
Data == {Null, Undefined, Arr(<<>>), Arr(<<Event1>>), Arr(<<Event2, Event1>>)}

\* nested structures and paths for the two path walkers
Scalars == {Null, Bool(TRUE), Bool(FALSE), Str(<<>>), Str(sUS), Num(DZero), Num(D42)}
PathKeys == {sA, sB, sLength}
RECURSIVE Values(_)
Values(d) ==
    IF d = 0 THEN Scalars
    ELSE Scalars \cup {EmptyObj} \cup {One(k, v) : k \in {sA, sB}, v \in Values(d - 1)}
Roots == {v \in Values(MaxDepth) : v.t = "object"}
Paths == SeqsUpTo(PathKeys, MaxPathLen)

(***************************************************************************)
(* Specifications.                                                         *)
(***************************************************************************)
Init ==
    /\ pc = [i \in Invocations |-> "idle"]
    /\ tool = [i \in Invocations |-> "none"]
    /\ args = [i \in Invocations |-> <<>>]
    /\ request = [i \in Invocations |-> <<>>]
    /\ response = [i \in Invocations |-> NoResponse]
    /\ idx = [i \in Invocations |-> 0]
    /\ sessions = [i \in Invocations |-> EmptyMap]
    /\ metrics = [i \in Invocations |-> EmptyMap]
    /\ content = [i \in Invocations |-> <<>>]
    /\ error = [i \in Invocations |-> ""]
    /\ running = 0
    /\ resolved = NoResponse

\* any number of invocations of the five handlers, interleaved at their await
Next ==
    \E i \in Invocations :
        \/ CallApplications(i)
        \/ \E data \in Data : ResumeApplications(i, data)
        \/ \E a \in EventsArgs : CallEvents(i, a)
        \/ \E data \in Data : ResumeEvents(i, data)
        \/ \E a \in WaterfallArgs : CallWaterfall(i, a)
        \/ \E data \in Data : ResumeWaterfall(i, data)
        \/ \E a \in GroupArgs(Queries, {sA}) : CallGrouped(i, a)
        \/ \E data \in Data : ResumeGrouped(i, data)
        \/ GroupedStep(i)
        \/ GroupedFinish(i)
        \/ \E a \in PerfArgs(Queries, {<<sA>>}) : CallPerformance(i, a)
        \/ \E data \in Data : ResumePerformance(i, data)
        \/ PerformanceStep(i)
        \/ PerformanceFinish(i)
        \/ ApiRejects(i)

Spec == Init /\ [][Next]_vars

\* one invocation of get_rum_grouped_event_count over every list of events
NextGrouped ==
    \/ \E a \in GroupArgs({"*"}, GroupBys) : CallGrouped(1, a)
    \/ /\ Resuming(1, "get_rum_grouped_event_count")
       /\ \E data \in ArraysUpTo(GroupEvents, MaxGroupEvents) : ResumeGrouped(1, data)
    \/ GroupedStep(1)
    \/ GroupedFinish(1)

SpecGrouped == Init /\ [][NextGrouped]_vars

\* one invocation of get_rum_page_performance over every list of events
NextPerformance ==
    \/ \E a \in PerfArgs({"*"}, MetricNameLists) : CallPerformance(1, a)
    \/ /\ Resuming(1, "get_rum_page_performance")
       /\ \E data \in ArraysUpTo(PerfEvents, MaxPerfEvents) : ResumePerformance(1, data)
    \/ PerformanceStep(1)
    \/ PerformanceFinish(1)

SpecPerformance == Init /\ [][NextPerformance]_vars

\* the two path walkers over every structure and path
NextPath ==
    /\ resolved = NoResponse
    /\ \E obj \in Roots, path \in Paths : ResolvePath(obj, path)

SpecPath == Init /\ [][NextPath]_vars

(***************************************************************************)
(* What the specification says of path resolution (4.1): the path is       *)
(* walked segment by segment, a segment that cannot be read gives          *)
(* found = FALSE, nothing raises.  A segment is read as JavaScript reads a *)
(* property, so a string has a length.                                     *)
(***************************************************************************)
RECURSIVE Resolve(_, _)
Resolve(v, path) ==
    IF path = <<>> THEN [found |-> TRUE, value |-> v]
    ELSE IF v.t \in {"null", "undefined"} \/ Lookup(v, Head(path)) = Undefined
         THEN [found |-> FALSE, value |-> Null]
         ELSE Resolve(Lookup(v, Head(path)), Tail(path))

\* C7: getValueByPath is total: for every structure and path it returns and
\* never raises; it returns found = FALSE exactly when some segment cannot be
\* read (an absent key, or a null or scalar with segments remaining), found =
\* TRUE with the value reached otherwise, and the root itself for the empty path.
C7_PathResolutionTotal ==
    resolved # NoResponse =>
        /\ resolved.byPath.kind = "return"
        /\ resolved.byPath.value.found = Resolve(resolved.obj, resolved.path).found
        /\ resolved.byPath.value.found =>
               resolved.byPath.value.value = Resolve(resolved.obj, resolved.path).value
        /\ resolved.path = <<>> =>
               resolved.byPath.value = [value |-> resolved.obj, found |-> TRUE]

\* C9: the reducer of get_rum_page_performance and getValueByPath agree for
\* the aggregator: neither raises, and the reducer yields a number v exactly
\* when getValueByPath returns found = TRUE with the number v.
C9_ReducerEquivalent ==
    resolved # NoResponse =>
        /\ resolved.byPath.kind = "return"
        /\ IsNumber(resolved.byReduce) <=>
               (resolved.byPath.value.found /\ IsNumber(resolved.byPath.value.value))
        /\ IsNumber(resolved.byReduce) =>
               resolved.byReduce = resolved.byPath.value.value

(***************************************************************************)
(* What the specification says of grouped counting (4.2), over the whole   *)
(* list of returned events.                                                *)
(***************************************************************************)
\* the group key of a usable event: the stringified value at the groupBy
\* path when it resolves, "unknown" when it does not
GroupKey(event, groupBy) ==
    LET r == Resolve(EventAttributes(event), split(groupBy))
    IN  IF r.found THEN String(r.value) ELSE sUnknown

\* the session id an event carries, if any: a non-empty string at session.id
CarriedSessions(event) ==
    LET r == Resolve(EventAttributes(event), <<sSession, sId>>)
    IN  IF r.found /\ r.value.t = "string" /\ r.value.s # <<>> THEN {r.value.s} ELSE {}

UsableIn(events) == {k \in 1..Len(events) : Usable(events[k])}

DistinctSessionCounts(events, groupBy) ==
    [key \in {GroupKey(events[k], groupBy) : k \in UsableIn(events)} |->
        Cardinality(UNION {CarriedSessions(events[k]) :
                              k \in {j \in UsableIn(events) :
                                        GroupKey(events[j], groupBy) = key}})]

Returned(i) == content[i][1].text.json

C2_UnresolvedGroupedAsUnknown ==
    tool[1] = "get_rum_grouped_event_count" =>
        /\ pc[1] # "error"
        /\ pc[1] \in {"loop", "done"} =>
               \A k \in UsableIn(response[1].a) :
                   k < idx[1] => GroupKey(response[1].a[k], args[1].groupBy)
                                     \in DOMAIN sessions[1]

(***************************************************************************)
(* What the specification says of the metric summary (4.3).                *)
(***************************************************************************)
Requested(i) == {args[i].metricNames[k] : k \in 1..Len(args[i].metricNames)}

IsLeast(d, samples) ==
    /\ \E k \in 1..Len(samples) : samples[k].n = d
    /\ \A k \in 1..Len(samples) : DoubleLeq(d, samples[k].n)

IsGreatest(d, samples) ==
    /\ \E k \in 1..Len(samples) : samples[k].n = d
    /\ \A k \in 1..Len(samples) : DoubleLeq(samples[k].n, d)

\* count, min, max and avg of a summary r of the samples, avg being the
\* quotient of the running sum by the count, both rounded as numbers are
Summarises(r, samples) ==
    IF samples = <<>>
    THEN r = [avg |-> DZero, min |-> DZero, max |-> DZero, count |-> 0]
    ELSE /\ r.count = Len(samples)
         /\ IsLeast(r.min, samples)
         /\ IsGreatest(r.max, samples)
         /\ r.avg = DoubleDiv(SumFrom(samples, DZero), Len(samples))

\* x + y loses no bit to rounding
AddIsExact(x, y) ==
    \/ x.m = <<>>
    \/ y.m = <<>>
    \/ LET e == IF x.e < y.e THEN x.e ELSE y.e
           N == BigAdd(ShiftLeft(x.m, x.e - e), ShiftLeft(y.m, y.e - e))
       IN  BitLen(N) <= Precision \/ LowBitsZero(N, BitLen(N) - Precision)

RECURSIVE SumIsExact(_, _)
\* every partial sum of acc + samples[1] + samples[2] + ... is exact
SumIsExact(samples, acc) ==
    \/ samples = <<>>
    \/ /\ AddIsExact(acc, Head(samples).n)
       /\ SumIsExact(Tail(samples), DoubleAdd(acc, Head(samples).n))

PerformanceDone == pc[1] = "done" /\ tool[1] = "get_rum_page_performance"

\* C3 as stated: every requested metric path has a summary of the samples
\* collected for it, with count, min, max and avg = sum / count, hence
\* min <= avg <= max; all four are 0 when no sample was collected.
C3_SummaryWithinMinMax ==
    PerformanceDone =>
        \A name \in Requested(1) :
            /\ name \in DOMAIN Returned(1)
            /\ Summarises(Returned(1)[name], metrics[1][name])
            /\ metrics[1][name] # <<>> =>
                   /\ DoubleLeq(Returned(1)[name].min, Returned(1)[name].avg)
                   /\ DoubleLeq(Returned(1)[name].avg, Returned(1)[name].max)

\* C3 as amended: every requested metric path has a summary of the samples
\* collected for it, with count, min, max and avg = the rounded quotient of
\* the rounded running sum by count; min <= avg <= max whenever the running
\* sum is exact; all four are 0 when no sample was collected.
C3_SummaryOfSamples ==
    PerformanceDone =>
        \A name \in Requested(1) :
            /\ name \in DOMAIN Returned(1)
            /\ Summarises(Returned(1)[name], metrics[1][name])
            /\ (metrics[1][name] # <<>> /\ SumIsExact(metrics[1][name], DZero)) =>
                   /\ DoubleLeq(Returned(1)[name].min, Returned(1)[name].avg)
                   /\ DoubleLeq(Returned(1)[name].avg, Returned(1)[name].max)

\* the samples 100, 200, 300 summarised as avg 200, min 100, max 300, count 3
C3_Witness ==
    /\ PerformanceDone
    /\ args[1].metricNames = <<sA>>
    /\ metrics[1][sA] = <<Num(D100), Num(D200), Num(D300)>>
    /\ Returned(1)[sA] = [avg |-> D200, min |-> D100, max |-> D300, count |-> 3]

\* C4: throughout the aggregation pass every value in a metric's series is a
\* number, and is the number found at that metric path in an event already
\* scanned; strings, booleans, null, maps and absent values never enter.
C4_SeriesHoldsOnlyNumbers ==
    (tool[1] = "get_rum_page_performance" /\ pc[1] \in {"loop", "done"}) =>
        \A name \in DOMAIN metrics[1] :
            \A k \in 1..Len(metrics[1][name]) :
                /\ metrics[1][name][k].t = "number"
                /\ \E j \in UsableIn(response[1].a) :
                       /\ j < idx[1]
                       /\ Resolve(EventAttributes(response[1].a[j]), split(name))
                              = [found |-> TRUE, value |-> metrics[1][name][k]]

\* the string "42" at the metric path was scanned and skipped, the number
\* 100 after it was collected
C4_Witness ==
    /\ tool[1] = "get_rum_page_performance"
    /\ pc[1] = "loop"
    /\ response[1] = Arr(<<Event(One(sA, Str(s42))), Event(One(sA, Num(D100)))>>)
    /\ idx[1] = 3
    /\ args[1].metricNames = <<sA>>
    /\ metrics[1][sA] = <<Num(D100)>>

\* the events of the list whose value at the metric path is a number
NumericAt(events, name) ==
    {k \in UsableIn(events) :
        LET r == Resolve(EventAttributes(events[k]), split(name))
        IN  r.found /\ r.value.t = "number"}

\* C10: an event contributes at most one sample to a metric path, whatever
\* the metricNames list: the count of a path is the number of usable events
\* with a number at that path, and never exceeds the number of events.
C10_OneSamplePerEvent ==
    PerformanceDone =>
        \A name \in Requested(1) :
            /\ Returned(1)[name].count = Cardinality(NumericAt(response[1].a, name))
            /\ Returned(1)[name].count <= Len(response[1].a)

(***************************************************************************)
(* What the specification says of the handlers (4.4, 5, 7).                *)
(***************************************************************************)
\* C5: for the wildcard query "*" get_rum_grouped_event_count sends no filter
\* and get_rum_page_performance sends exactly "@type:view"; for any other
\* query they send the query unchanged and "@type:view " followed by the
\* query; neither ever sends the literal "*".
C5_WildcardNeverSent ==
    \A i \in Invocations :
        /\ (pc[i] # "idle" /\ tool[i] = "get_rum_grouped_event_count") =>
               /\ request[i].filterQuery # Str("*")
               /\ request[i].filterQuery =
                      IF args[i].query = "*" THEN Undefined ELSE Str(args[i].query)
        /\ (pc[i] # "idle" /\ tool[i] = "get_rum_page_performance") =>
               /\ request[i].filterQuery # Str("*")
               /\ request[i].filterQuery =
                      IF args[i].query = "*" THEN Str("@type:view")
                      ELSE Str("@type:view " \o args[i].query)

\* both handlers called with the wildcard
C5_Witness ==
    /\ pc[1] = "awaiting" /\ tool[1] = "get_rum_grouped_event_count"
    /\ args[1].query = "*" /\ request[1].filterQuery = Undefined
    /\ pc[2] = "awaiting" /\ tool[2] = "get_rum_page_performance"
    /\ args[2].query = "*" /\ request[2].filterQuery = Str("@type:view")

\* the normal result of a handler for an empty data list
EmptyResult(i) ==
    CASE tool[i] = "get_rum_grouped_event_count" -> EmptyMap
      [] tool[i] = "get_rum_page_performance" ->
             [name \in Requested(i) |->
                 [avg |-> DZero, min |-> DZero, max |-> DZero, count |-> 0]]
      [] OTHER -> Arr(<<>>)

\* C6: a null or absent data field ends the invocation in an error, with no
\* content block and the message of the handler; an empty data list is no
\* error and yields the empty list or the empty aggregation.
C6_NoDataIsAnError ==
    \A i \in Invocations :
        /\ response[i] \in {Null, Undefined} =>
               /\ pc[i] = "error"
               /\ content[i] = <<>>
               /\ error[i] = IF tool[i] = "get_rum_applications"
                             THEN "No RUM applications data returned"
                             ELSE "No RUM events data returned"
        /\ response[i] = Arr(<<>>) =>
               /\ pc[i] # "error"
               /\ pc[i] = "done" => Returned(i) = EmptyResult(i)

\* get_rum_applications given null and an event handler given no data field,
\* both ended in their error
C6_Witness ==
    /\ tool[1] = "get_rum_applications" /\ response[1] = Null
    /\ pc[1] = "error" /\ error[1] = "No RUM applications data returned"
    /\ tool[2] = "get_rum_page_performance" /\ response[2] = Undefined
    /\ pc[2] = "error" /\ error[2] = "No RUM events data returned"

\* a handler run alone, from its arguments and the data of its response
RECURSIVE GroupAll(_, _, _)
GroupAll(events, groupBy, m) ==
    IF events = <<>> THEN Return(m)
    ELSE LET step == IF Usable(Head(events))
                     THEN GroupEvent(m, EventAttributes(Head(events)), groupBy)
                     ELSE Return(m)
         IN  IF step.kind = "throw" THEN step
             ELSE GroupAll(Tail(events), groupBy, step.value)

RECURSIVE CollectAll(_, _, _)
CollectAll(events, metricNames, m) ==
    IF events = <<>> THEN m
    ELSE CollectAll(Tail(events), metricNames,
                    IF Usable(Head(events))
                    THEN CollectMetrics(metricNames, EventAttributes(Head(events)), m)
                    ELSE m)

Failed(message) == [pc |-> "error", error |-> message]
Succeeded(blocks) == [pc |-> "done", content |-> blocks]

Alone(name, a, data) ==
    IF data \in {Null, Undefined}
    THEN Failed(IF name = "get_rum_applications" THEN NoApplicationsData ELSE NoEventsData)
    ELSE CASE name = "get_rum_applications" ->
                  Succeeded(TextContent(<<"RUM applications: ">>, data))
           [] name = "get_rum_events" ->
                  Succeeded(TextContent(<<"RUM events data: ">>, data))
           [] name = "get_rum_page_waterfall" ->
                  Succeeded(TextContent(<<"Waterfall data: ">>, data))
           [] name = "get_rum_grouped_event_count" ->
                  LET r == GroupAll(data.a, a.groupBy, EmptyMap)
                  IN  IF r.kind = "throw" THEN Failed(r.error)
                      ELSE Succeeded(TextContent(
                               <<"Session counts (grouped by ", a.groupBy, "): ">>,
                               SessionCounts(r.value)))
           [] name = "get_rum_page_performance" ->
                  Succeeded(TextContent(<<"Page performance metrics: ">>,
                      Results(CollectAll(data.a, a.metricNames,
                                         InitialMetrics(a.metricNames)))))

Outcome(i) ==
    IF pc[i] = "done" THEN Succeeded(content[i]) ELSE Failed(error[i])

\* C8: invocations share no state: however the invocations interleave at
\* their await, each ends as it would have ended alone with the same
\* arguments and the same response.
C8_InvocationsIndependent ==
    \A i \in Invocations :
        (pc[i] \in {"done", "error"} /\ response[i] # NoResponse) =>
            Outcome(i) = Alone(tool[i], args[i], response[i])

\* two invocations of the grouped counter, each returned with the counts of
\* its own events
C8_Witness ==
    /\ pc[1] = "done" /\ tool[1] = "get_rum_grouped_event_count"
    /\ response[1] = Arr(<<Event2, Event1>>)
    /\ pc[2] = "done" /\ tool[2] = "get_rum_grouped_event_count"
    /\ response[2] = Arr(<<Event1>>)
    /\ Returned(2) # Returned(1)

====
